---- MODULE Spec2Model ----
(***************************************************************************)
(* A model of oc::hal::midi::LibreMidiTransport (LibreMidiTransport.cpp /  *)
(* LibreMidiTransport.hpp): the inbound callback and update() pump around  *)
(* pending_messages_, the decoder processMessage, the active-note registry *)
(* with the send operations, and port discovery in init().                 *)
(*                                                                         *)
(* The module holds several specifications over one set of variables:     *)
(*   SpecQueue   producer callbacks racing update()                        *)
(*   SpecPump    the queue under fair scheduling of update()               *)
(*   SpecDecode  processMessage on one frame under every listener set      *)
(*   SpecNotes   init(), the send operations and allNotesOff()             *)
(*   SpecInit    init() over enumerated ports and name patterns            *)
(*   SpecEcho    update() with each decoded call sent back out             *)
(*   SpecSend    every send operation, output connected or not             *)
(*   SpecReady   init() repeated on a transport in use                     *)
(*   SpecAsync   WebMIDI port notifications after init()                   *)
(*   SpecBend    sendPitchBend over channels and values                    *)
(***************************************************************************)
EXTENDS Integers, Sequences, FiniteSets, TLC

VARIABLES
    \* ---- build and configuration (LibreMidiConfig, preprocessor branch)
    build,              \* "desktop" | "apple" | "emscripten"
    config_,            \* [maxActiveNotes, inputPortName, outputPortName, useVirtualPorts]
    \* ---- the backend (libremidi), as the transport observes it
    in_ports,           \* obs.get_input_ports(): display names in enumeration order
    out_ports,          \* obs.get_output_ports()
    out_connected,      \* what midi_out_->is_port_connected() answers for an opened port
    in_connected,       \* what midi_in_->is_port_connected() answers for an opened port
    \* ---- LibreMidiTransport members
    initialized_,
    observer_,          \* TRUE once the WebMIDI observer exists
    midi_in_,           \* [created, port]: the unique_ptr and the port it opened
    midi_out_,
    active_notes_,      \* sequence of [channel, note, active]
    listeners,          \* the on_*_ callbacks that are set
    pending_messages_,  \* sequence of [bytes, timestampUs]
    pending_mutex_,     \* "free" or the thread holding the lock
    \* ---- threads
    upd,                \* update() on the main thread: [pc, local, i]
    cb,                 \* on_message per producer thread: [pc, pending]
    clock,              \* what nowSteadyUs() returns next
    \* ---- observation (history of what the program did)
    offered,            \* frames handed to on_message, in call order
    arrived,            \* frames that reached the length check since the last swap
    swapArrived,        \* arrived, as it was at the last swap
    accepted,           \* frames pushed onto pending_messages_, in push order
    processed,          \* frames handed to processMessage, in call order
    updProcessed,       \* ... by the update() call in progress
    calls,              \* listener invocations, in order
    lastFrame,          \* the frame of the last processMessage call
    lastCalls,          \* the listener invocations that call made
    lastOp,             \* the last send operation or allNotesOff() called
    tick,               \* flips at every such call
    lastWire,           \* messages that call gave to midi_out_->send_message
    prevOp,             \* the call before it
    prevWire,           \* messages that one wrote
    sent,               \* (channel, note) of the sendNoteOn calls that reached
                        \* markNoteActive since init(), while trace is not "mixed"
    trace,              \* "fresh": the registry saw only those calls since init();
                        \* "flushed": then one allNotesOff() on a connected output;
                        \* "mixed": anything else (sent is then dropped)
    opened,             \* open_port / open_virtual_port calls of the last init() that ran
    initFault,          \* where the backend raised, or would have, in that init()
    initRet,            \* what the last init() returned
    initTick,           \* flips at every init() call
    lastEvent,          \* the last port notification of the observer: [kind, name, seq]
    lastSteps,          \* what the last sendNoteOn / sendNoteOff call did, in order
    lastArgs            \* the arguments of the last call, when it was a send operation
                        \* that leaves the registry alone; <<>> otherwise

envVars   == <<build, config_, in_ports, out_ports>>
portVars  == <<initialized_, observer_, midi_in_, midi_out_, opened, initFault,
               initRet, in_connected, initTick, lastEvent>>
noteVars  == <<active_notes_, out_connected, lastOp, tick, lastWire, prevOp,
               prevWire, sent, trace, lastSteps, lastArgs>>
queueVars == <<pending_messages_, pending_mutex_, upd, cb, clock, offered,
               arrived, swapArrived, accepted, processed, updProcessed>>
dispVars  == <<listeners, calls, lastFrame, lastCalls>>
vars      == <<envVars, portVars, noteVars, queueVars, dispVars>>

(***************************************************************************)
(* Bounds of the model.                                                    *)
(***************************************************************************)
\* max_pending_messages_ is 1024 in the code; the model runs it at QueueCap.
QueueCap == 2
\* Frames the backend offers to on_message in one run.
MaxOffered == 3

(***************************************************************************)
(* Bytes.                                                                  *)
(***************************************************************************)
Min(a, b) == IF a < b THEN a ELSE b

\* status & 0xF0, status & 0x0F, x & 0x7F on uint8_t
HighNibble(b) == (b \div 16) * 16
LowNibble(b)  == b % 16
Mask7(b)      == b % 128

AllListeners == {"on_cc_", "on_note_on_", "on_note_off_", "on_sysex_",
                 "on_clock_", "on_start_", "on_stop_", "on_continue_"}

\* One invocation of a listener with its arguments.
Call(l, a) == [listener |-> l, args |-> a]

\* if (on_x_) on_x_(args...)
Invoke(l, a, L) == IF l \in L THEN <<Call(l, a)>> ELSE <<>>

(***************************************************************************)
(* processMessage(data, length, timestampUs): the listener invocations it  *)
(* makes, given the set L of listeners that are set.  It touches no member *)
(* of the transport.                                                       *)
(***************************************************************************)
processMessageNoLengthCheck(data, timestampUs, L) ==
    LET at(k)   == IF k <= Len(data) THEN data[k] ELSE 0
        status  == at(1)
        type    == HighNibble(status)
        channel == LowNibble(status)
    IN  CASE status = 248 -> Invoke("on_clock_", <<timestampUs>>, L)
          [] status = 250 -> Invoke("on_start_", <<>>, L)
          [] status = 251 -> Invoke("on_continue_", <<>>, L)
          [] status = 252 -> Invoke("on_stop_", <<>>, L)
          [] OTHER ->
             CASE type = 128 -> Invoke("on_note_off_", <<channel, at(2), at(3)>>, L)
               [] type = 144 ->
                    IF at(3) = 0 /\ "on_note_off_" \in L
                    THEN Invoke("on_note_off_", <<channel, at(2), 0>>, L)
                    ELSE Invoke("on_note_on_", <<channel, at(2), at(3)>>, L)
               [] type = 176 -> Invoke("on_cc_", <<channel, at(2), at(3)>>, L)
               [] type = 240 -> IF status = 240
                                THEN Invoke("on_sysex_", <<data>>, L)
                                ELSE <<>>
               [] OTHER -> <<>>

processMessageRealtimeLength1(data, timestampUs, L) ==
    LET status  == IF Len(data) = 0 THEN 0 ELSE data[1]
        type    == HighNibble(status)
        channel == LowNibble(status)
        voice(l) == IF Len(data) >= 3
                    THEN Invoke(l, <<channel, data[2], data[3]>>, L)
                    ELSE <<>>
    IN  CASE Len(data) = 0 -> <<>>
          [] Len(data) = 1 /\ status = 248 -> Invoke("on_clock_", <<timestampUs>>, L)
          [] Len(data) = 1 /\ status = 250 -> Invoke("on_start_", <<>>, L)
          [] Len(data) = 1 /\ status = 251 -> Invoke("on_continue_", <<>>, L)
          [] Len(data) = 1 /\ status = 252 -> Invoke("on_stop_", <<>>, L)
          [] OTHER ->
             CASE type = 128 -> voice("on_note_off_")
               [] type = 144 ->
                    IF Len(data) >= 3 /\ data[3] = 0 /\ "on_note_off_" \in L
                    THEN <<Call("on_note_off_", <<channel, data[2], 0>>)>>
                    ELSE voice("on_note_on_")
               [] type = 176 -> voice("on_cc_")
               [] type = 240 -> IF status = 240
                                THEN Invoke("on_sysex_", <<data>>, L)
                                ELSE <<>>
               [] OTHER -> <<>>

processMessageSysExPayloadOnly(data, timestampUs, L) ==
    IF Len(data) = 0 THEN <<>>
    ELSE
    LET status  == data[1]
        type    == HighNibble(status)
        channel == LowNibble(status)
        voice(l) == IF Len(data) >= 3
                    THEN Invoke(l, <<channel, data[2], data[3]>>, L)
                    ELSE <<>>
    IN  CASE status = 248 -> Invoke("on_clock_", <<timestampUs>>, L)
          [] status = 250 -> Invoke("on_start_", <<>>, L)
          [] status = 251 -> Invoke("on_continue_", <<>>, L)
          [] status = 252 -> Invoke("on_stop_", <<>>, L)
          [] OTHER ->
             CASE type = 128 -> voice("on_note_off_")
               [] type = 144 ->
                    IF Len(data) >= 3 /\ data[3] = 0 /\ "on_note_off_" \in L
                    THEN <<Call("on_note_off_", <<channel, data[2], 0>>)>>
                    ELSE voice("on_note_on_")
               [] type = 176 -> voice("on_cc_")
               [] type = 240 -> IF status = 240
                                THEN Invoke("on_sysex_", <<Tail(data)>>, L)
                                ELSE <<>>
               [] OTHER -> <<>>

processMessage(data, timestampUs, L) ==
    IF Len(data) = 0 THEN <<>>                                  \* :193
    ELSE
    LET status  == data[1]                                      \* :198
        type    == HighNibble(status)                           \* :218
        channel == LowNibble(status)                            \* :219
    IN  CASE status = 248 -> Invoke("on_clock_", <<timestampUs>>, L)   \* 0xF8
          [] status = 250 -> Invoke("on_start_", <<>>, L)              \* 0xFA
          [] status = 251 -> Invoke("on_continue_", <<>>, L)           \* 0xFB
          [] status = 252 -> Invoke("on_stop_", <<>>, L)               \* 0xFC
          [] OTHER ->
             CASE type = 128 ->                                        \* 0x80
                    IF Len(data) >= 3
                    THEN Invoke("on_note_off_", <<channel, data[2], data[3]>>, L)
                    ELSE <<>>
               [] type = 144 ->                                        \* 0x90
                    IF Len(data) >= 3
                    THEN IF data[3] = 0 /\ "on_note_off_" \in L
                         THEN <<Call("on_note_off_", <<channel, data[2], 0>>)>>
                         ELSE Invoke("on_note_on_", <<channel, data[2], data[3]>>, L)
                    ELSE <<>>
               [] type = 176 ->                                        \* 0xB0
                    IF Len(data) >= 3
                    THEN Invoke("on_cc_", <<channel, data[2], data[3]>>, L)
                    ELSE <<>>
               [] type = 240 ->                                        \* 0xF0
                    IF status = 240
                    THEN Invoke("on_sysex_", <<data>>, L)
                    ELSE <<>>
               [] OTHER -> <<>>

(***************************************************************************)
(* The active-note registry: markNoteActive, markNoteInactive.             *)
(***************************************************************************)
\* The loop of markNoteActive: the index of the first inactive slot from k
\* on, or 0.
RECURSIVE FirstFree(_, _)
FirstFree(notes, k) ==
    IF k > Len(notes) THEN 0
    ELSE IF ~notes[k].active THEN k
    ELSE FirstFree(notes, k + 1)

\* The loop of markNoteInactive: the index of the first active slot from k on
\* that holds (channel, note), or 0.
RECURSIVE FirstHit(_, _, _, _)
FirstHit(notes, channel, note, k) ==
    IF k > Len(notes) THEN 0
    ELSE IF notes[k].active /\ notes[k].channel = channel /\ notes[k].note = note
    THEN k
    ELSE FirstHit(notes, channel, note, k + 1)

ActiveNote(channel, note) == [channel |-> channel, note |-> note, active |-> TRUE]

markNoteActiveDropWhenFull(notes, channel, note) ==
    LET k == FirstFree(notes, 1)
    IN  IF k # 0 THEN [notes EXCEPT ![k] = ActiveNote(channel, note)] ELSE notes

markNoteActiveGrows(notes, channel, note) ==
    LET k == FirstFree(notes, 1)
    IN  IF k # 0 THEN [notes EXCEPT ![k] = ActiveNote(channel, note)]
        ELSE Append(notes, ActiveNote(channel, note))

markNoteActive(notes, channel, note) ==
    LET k == FirstFree(notes, 1)
    IN  IF k # 0 THEN [notes EXCEPT ![k] = ActiveNote(channel, note)]       \* :256-261
        ELSE IF Len(notes) # 0
        THEN [notes EXCEPT ![1] = ActiveNote(channel, note)]                \* :262-264
        ELSE notes

markNoteInactiveClearsAll(notes, channel, note) ==
    [k \in 1..Len(notes) |->
        IF notes[k].active /\ notes[k].channel = channel /\ notes[k].note = note
        THEN [notes[k] EXCEPT !.active = FALSE]
        ELSE notes[k]]

markNoteInactive(notes, channel, note) ==
    LET k == FirstHit(notes, channel, note, 1)
    IN  IF k # 0 THEN [notes EXCEPT ![k].active = FALSE] ELSE notes

\* The registry after processMessage(data, length, timestampUs): none of its
\* statements calls markNoteActive or markNoteInactive or writes a slot.
processMessageTracksNotes(notes, data) ==
    IF Len(data) < 3 THEN notes
    ELSE IF HighNibble(data[1]) = 144 /\ data[3] > 0
    THEN markNoteActive(notes, LowNibble(data[1]), data[2])
    ELSE IF HighNibble(data[1]) \in {128, 144}
    THEN markNoteInactive(notes, LowNibble(data[1]), data[2])
    ELSE notes

processMessageNotes(notes, data) == notes
(***************************************************************************)
(* The inbound queue: on_message (producer threads) and update().          *)
(***************************************************************************)
Producers == {"p1", "p2"}

max_pending_messages_ == QueueCap

PendingMessage(b, t) == [bytes |-> b, timestampUs |-> t]

NoPending == PendingMessage(<<>>, 0)

\* Frames the backend delivers in SpecQueue: NoteOn, Clock, NoteOff, a
\* truncated NoteOn, a lone data byte, and an empty message.
QueueFrames == {<<144, 60, 100>>, <<248>>, <<128, 60, 0>>, <<144, 60>>, <<100>>, <<>>}

\* The length check of on_message, under the lock.
QueueIsFullOffByOne(q) == Len(q) > max_pending_messages_

QueueIsFull(q) == Len(q) >= max_pending_messages_

\* What the callback does to the queue once it holds the lock.
EnqueueDropOldest(q, p) ==
    IF QueueIsFull(q) THEN Append(Tail(q), p) ELSE Append(q, p)

EnqueueFront(q, p) == IF QueueIsFull(q) THEN q ELSE <<p>> \o q

Enqueue(q, p) == IF QueueIsFull(q) THEN q ELSE Append(q, p)

\* on_message entry: an empty message returns at once; otherwise the frame is
\* stamped with nowSteadyUs() and the thread goes for the lock.
CbBegin(t, b) ==
    /\ cb[t].pc = "idle"
    /\ Len(offered) < MaxOffered
    /\ offered' = Append(offered, b)
    /\ IF Len(b) = 0
       THEN UNCHANGED <<cb, clock>>
       ELSE /\ cb' = [cb EXCEPT ![t] = [pc |-> "lock", pending |-> PendingMessage(b, clock)]]
            /\ clock' = clock + 1
    /\ UNCHANGED <<pending_messages_, pending_mutex_, upd, arrived, swapArrived,
                   accepted, processed, updProcessed>>
    /\ UNCHANGED <<envVars, portVars, noteVars, dispVars>>

\* std::lock_guard<std::mutex> lock(pending_mutex_)
CbAcquire(t) ==
    /\ cb[t].pc = "lock"
    /\ pending_mutex_ = "free"
    /\ pending_mutex_' = t
    /\ cb' = [cb EXCEPT ![t].pc = "locked"]
    /\ UNCHANGED <<pending_messages_, upd, clock, offered, arrived, swapArrived,
                   accepted, processed, updProcessed>>
    /\ UNCHANGED <<envVars, portVars, noteVars, dispVars>>

\* The length check, the push_back (or the drop) and the lock_guard's release.
CbPush(t) ==
    /\ cb[t].pc = "locked"
    /\ pending_mutex_ = t
    /\ pending_messages_' = Enqueue(pending_messages_, cb[t].pending)
    /\ arrived' = Append(arrived, cb[t].pending)
    /\ accepted' = IF pending_messages_' # pending_messages_
                   THEN Append(accepted, cb[t].pending)
                   ELSE accepted
    /\ pending_mutex_' = "free"
    /\ cb' = [cb EXCEPT ![t] = [pc |-> "idle", pending |-> NoPending]]
    /\ UNCHANGED <<upd, clock, offered, swapArrived, processed, updProcessed>>
    /\ UNCHANGED <<envVars, portVars, noteVars, dispVars>>

\* update() entry: std::vector<PendingMessage> local;
UpdBegin ==
    /\ upd.pc = "idle"
    /\ upd' = [pc |-> "lock", local |-> <<>>, i |-> 1]
    /\ updProcessed' = <<>>
    /\ UNCHANGED <<pending_messages_, pending_mutex_, cb, clock, offered, arrived,
                   swapArrived, accepted, processed>>
    /\ UNCHANGED <<envVars, portVars, noteVars, dispVars>>

UpdAcquire ==
    /\ upd.pc = "lock"
    /\ pending_mutex_ = "free"
    /\ pending_mutex_' = "update"
    /\ upd' = [upd EXCEPT !.pc = "locked"]
    /\ UNCHANGED <<pending_messages_, cb, clock, offered, arrived, swapArrived,
                   accepted, processed, updProcessed>>
    /\ UNCHANGED <<envVars, portVars, noteVars, dispVars>>

\* local.swap(pending_messages_): what the swap leaves in pending_messages_,
\* local being empty before it.
SwapKeepsQueue(q) == q

SwapLeaves(q) == <<>>

\* The swap and the end of the locked block.
UpdSwapKeepsLock ==
    /\ upd.pc = "locked"
    /\ pending_mutex_ = "update"
    /\ upd' = [pc |-> "dispatch", local |-> pending_messages_, i |-> 1]
    /\ pending_messages_' = SwapLeaves(pending_messages_)
    /\ swapArrived' = arrived
    /\ arrived' = <<>>
    /\ UNCHANGED <<pending_mutex_, cb, clock, offered, accepted, processed, updProcessed>>
    /\ UNCHANGED <<envVars, portVars, noteVars, dispVars>>

UpdSwap ==
    /\ upd.pc = "locked"
    /\ pending_mutex_ = "update"
    /\ upd' = [pc |-> "dispatch", local |-> pending_messages_, i |-> 1]
    /\ pending_messages_' = SwapLeaves(pending_messages_)
    /\ pending_mutex_' = "free"
    /\ swapArrived' = arrived
    /\ arrived' = <<>>
    /\ UNCHANGED <<cb, clock, offered, accepted, processed, updProcessed>>
    /\ UNCHANGED <<envVars, portVars, noteVars, dispVars>>

\* One iteration of: for (auto& pending : local) processMessage(...)
UpdProcess ==
    /\ upd.pc = "dispatch"
    /\ upd.i <= Len(upd.local)
    /\ LET p == upd.local[upd.i]
           made == processMessage(p.bytes, p.timestampUs, listeners)
       IN  /\ calls' = calls \o made
           /\ lastFrame' = p.bytes
           /\ lastCalls' = made
           /\ processed' = Append(processed, p)
           /\ updProcessed' = Append(updProcessed, p)
           /\ active_notes_' = processMessageNotes(active_notes_, p.bytes)
    /\ upd' = [upd EXCEPT !.i = upd.i + 1]
    /\ UNCHANGED listeners
    /\ UNCHANGED <<pending_messages_, pending_mutex_, cb, clock, offered, arrived,
                   swapArrived, accepted>>
    /\ UNCHANGED <<out_connected, lastOp, tick, lastWire, prevOp, prevWire, sent, trace,
                   lastSteps, lastArgs>>
    /\ UNCHANGED <<envVars, portVars>>

\* The loop is over: update() returns and local is destroyed.
UpdReturnDrainsAgain ==
    /\ upd.pc = "dispatch"
    /\ upd.i > Len(upd.local)
    /\ upd' = IF pending_messages_ # <<>>
              THEN [pc |-> "lock", local |-> <<>>, i |-> 1]
              ELSE [pc |-> "idle", local |-> <<>>, i |-> 1]
    /\ UNCHANGED <<pending_messages_, pending_mutex_, cb, clock, offered, arrived,
                   swapArrived, accepted, processed, updProcessed>>
    /\ UNCHANGED <<envVars, portVars, noteVars, dispVars>>

UpdReturn ==
    /\ upd.pc = "dispatch"
    /\ upd.i > Len(upd.local)
    /\ upd' = [pc |-> "idle", local |-> <<>>, i |-> 1]
    /\ UNCHANGED <<pending_messages_, pending_mutex_, cb, clock, offered, arrived,
                   swapArrived, accepted, processed, updProcessed>>
    /\ UNCHANGED <<envVars, portVars, noteVars, dispVars>>

(***************************************************************************)
(* Port discovery: init().                                                 *)
(***************************************************************************)
\* A port a midi_in / midi_out object holds open, and the object itself.
Closed       == [open |-> FALSE, idx |-> 0, name |-> <<>>]
Port(i, n)   == [open |-> TRUE, idx |-> i, name |-> n]
NoDevice     == [created |-> FALSE, port |-> Closed]
FreshDevice  == [created |-> TRUE, port |-> Closed]

\* std::string::find(pattern): the lowest 0-based position at which pattern
\* occurs in name, or -1 for npos.
RECURSIVE find(_, _, _)
find(name, pattern, pos) ==
    IF pos + Len(pattern) > Len(name) THEN -1
    ELSE IF SubSeq(name, pos + 1, pos + Len(pattern)) = pattern THEN pos
    ELSE find(name, pattern, pos + 1)

\* config_.inputPortName.empty() || name.find(config_.inputPortName) != npos
Matches(name, pattern) ==
    Len(pattern) = 0 \/ find(name, pattern, 0) # -1

\* The enumeration loop of init(): the index (from 1) of the port it opens,
\* scanning from index i, or 0 when it opens none.
RECURSIVE ScanPortsNoBreak(_, _, _)
ScanPortsNoBreak(ports, pattern, i) ==
    IF i > Len(ports) THEN 0
    ELSE LET later == ScanPortsNoBreak(ports, pattern, i + 1)
         IN  IF later # 0 THEN later
             ELSE IF Matches(ports[i], pattern) THEN i ELSE 0

RECURSIVE ScanPorts(_, _, _)
ScanPorts(ports, pattern, i) ==
    IF i > Len(ports) THEN 0
    ELSE IF Matches(ports[i], pattern) THEN i
    ELSE ScanPorts(ports, pattern, i + 1)

\* ActiveNote{}: what resize() value-initializes a new slot to.
ZeroSlot == [channel |-> 0, note |-> 0, active |-> FALSE]

\* active_notes_.resize(n), then note.active = false for every slot.
ResetNotes(notes, n) ==
    [k \in 1..n |-> IF k <= Len(notes)
                    THEN [notes[k] EXCEPT !.active = FALSE]
                    ELSE ZeroSlot]

Opening(d, i, n) == [dir |-> d, idx |-> i, name |-> n]

Members == [initialized_ |-> initialized_, observer_ |-> observer_,
            midi_in_ |-> midi_in_, midi_out_ |-> midi_out_,
            active_notes_ |-> active_notes_, opened |-> opened,
            ret |-> initRet]

\* Where the backend raises during one init() call.
Faults == {"none", "midi_in", "midi_out", "observer", "open_in", "open_out"}

ThrewReturnsOk(m) == [m EXCEPT !.ret = "ok"]
Threw(m) == [m EXCEPT !.ret = "HARDWARE_INIT_FAILED"]
Ready(m) == [m EXCEPT !.initialized_ = TRUE, !.ret = "ok"]

\* #ifdef __EMSCRIPTEN__: the observer is created, ports come later.
initWebMidi(m, fault) ==
    IF fault = "observer" THEN Threw(m)
    ELSE Ready([m EXCEPT !.observer_ = TRUE])

\* __APPLE__ with config_.useVirtualPorts: virtual ports under the given names.
initVirtual(m, c, fault) ==
    LET m1 == [m  EXCEPT !.midi_in_ = FreshDevice]
        m2 == [m1 EXCEPT !.midi_out_ = FreshDevice]
        vi == Len(c.inputPortName) # 0
        vo == Len(c.outputPortName) # 0
        m3 == IF vi
              THEN [m2 EXCEPT !.midi_in_.port = Port(0, c.inputPortName),
                              !.opened = Append(@, Opening("in", 0, c.inputPortName))]
              ELSE m2
        m4 == IF vo
              THEN [m3 EXCEPT !.midi_out_.port = Port(0, c.outputPortName),
                              !.opened = Append(@, Opening("out", 0, c.outputPortName))]
              ELSE m3
    IN  CASE fault = "midi_in"        -> Threw(m)
          [] fault = "midi_out"       -> Threw(m1)
          [] fault = "open_in" /\ vi  -> Threw(m2)
          [] fault = "open_out" /\ vo -> Threw(m3)
          [] OTHER                    -> Ready(m4)

\* Otherwise: enumerate, open the first matching port of each direction.
initExisting(m, c, ins, outs, fault) ==
    LET m1 == [m  EXCEPT !.midi_in_ = FreshDevice]                      \* :116
        m2 == [m1 EXCEPT !.midi_out_ = FreshDevice]                     \* :117
        i  == ScanPorts(ins, c.inputPortName, 1)                        \* :132-143
        o  == ScanPorts(outs, c.outputPortName, 1)                      \* :147-158
        m3 == IF i # 0
              THEN [m2 EXCEPT !.midi_in_.port = Port(i, ins[i]),
                              !.opened = Append(@, Opening("in", i, ins[i]))]
              ELSE m2
        m4 == IF o # 0
              THEN [m3 EXCEPT !.midi_out_.port = Port(o, outs[o]),
                              !.opened = Append(@, Opening("out", o, outs[o]))]
              ELSE m3
    IN  CASE fault = "midi_in"           -> Threw(m)
          [] fault = "midi_out"          -> Threw(m1)
          [] fault = "observer"          -> Threw(m2)
          [] fault = "open_in" /\ i # 0  -> Threw(m2)
          [] fault = "open_out" /\ o # 0 -> Threw(m3)
          [] OTHER                       -> Ready(m4)

\* init() on members m, in build b with configuration c, the backend
\* enumerating ins and outs and raising at fault: the members afterwards.
initOutcomeNoEarlyReturn(m, b, c, ins, outs, fault) ==
    LET m0 == [m EXCEPT !.active_notes_ = ResetNotes(@, c.maxActiveNotes),
                        !.opened = <<>>]
    IN  CASE b = "emscripten" -> initWebMidi(m0, fault)
          [] b = "apple" /\ c.useVirtualPorts -> initVirtual(m0, c, fault)
          [] OTHER -> initExisting(m0, c, ins, outs, fault)

initOutcome(m, b, c, ins, outs, fault) ==
    IF m.initialized_ THEN [m EXCEPT !.ret = "ok"]                      \* :30-32
    ELSE LET m0 == [m EXCEPT !.active_notes_ = ResetNotes(@, c.maxActiveNotes),
                             !.opened = <<>>]
         IN  CASE b = "emscripten" -> initWebMidi(m0, fault)
               [] b = "apple" /\ c.useVirtualPorts -> initVirtual(m0, c, fault)
               [] OTHER -> initExisting(m0, c, ins, outs, fault)

init(fault) ==
    /\ LET r == initOutcome(Members, build, config_, in_ports, out_ports, fault)
       IN  /\ initialized_' = r.initialized_
           /\ observer_' = r.observer_
           /\ midi_in_' = r.midi_in_
           /\ midi_out_' = r.midi_out_
           /\ active_notes_' = r.active_notes_
           /\ opened' = r.opened
           /\ initRet' = r.ret
           /\ initFault' = IF initialized_ THEN initFault ELSE fault
           /\ initTick' = 1 - initTick
           /\ sent' = IF initialized_ THEN sent ELSE <<>>
           /\ trace' = IF initialized_ THEN trace ELSE "fresh"
    /\ UNCHANGED <<in_connected, lastEvent>>
    /\ UNCHANGED <<out_connected, lastOp, tick, lastWire, prevOp, prevWire, lastSteps,
                   lastArgs>>
    /\ UNCHANGED <<envVars, queueVars, dispVars>>

\* Members of a transport just constructed.
Constructed == [initialized_ |-> FALSE, observer_ |-> FALSE,
                midi_in_ |-> NoDevice, midi_out_ |-> NoDevice,
                active_notes_ |-> <<>>, opened |-> <<>>, ret |-> "none"]

(***************************************************************************)
(* Port notifications of the WebMIDI observer: onInputAdded, onOutputAdded *)
(* and the two "removed" lambdas.                                          *)
(***************************************************************************)
\* midi_x_ && midi_x_->is_port_connected()
IsConnected(dev, connected) == dev.created /\ dev.port.open /\ connected

\* A port announced by the observer: it has a display name and no place in
\* an enumeration.
Announced(name) == Port(0, name)

\* onInputAdded / onOutputAdded on the device of that direction: the device
\* afterwards and what is_port_connected() then answers.
portAddedNoSkip(dev, connected, pattern, name) ==
    IF ~Matches(name, pattern)
    THEN [dev |-> dev, connected |-> connected]
    ELSE [dev |-> [created |-> TRUE, port |-> Announced(name)], connected |-> TRUE]

portAddedAnyName(dev, connected, pattern, name) ==
    IF IsConnected(dev, connected)
    THEN [dev |-> dev, connected |-> connected]
    ELSE [dev |-> [created |-> TRUE, port |-> Announced(name)], connected |-> TRUE]

portAdded(dev, connected, pattern, name) ==
    IF IsConnected(dev, connected)                                      \* :416-418
    THEN [dev |-> dev, connected |-> connected]
    ELSE IF ~Matches(name, pattern)                                     \* :421-424
    THEN [dev |-> dev, connected |-> connected]
    ELSE [dev |-> [created |-> TRUE, port |-> Announced(name)],         \* :445-452
          connected |-> TRUE]

Event(kind, name, seq) == [kind |-> kind, name |-> name, seq |-> seq]
NoEvent == Event("none", <<>>, 0)

\* The observer exists only in the WebMIDI build, once init() has made it.
onInputAdded(name) ==
    /\ observer_
    /\ LET r == portAdded(midi_in_, in_connected, config_.inputPortName, name)
       IN  /\ midi_in_' = r.dev
           /\ in_connected' = r.connected
    /\ lastEvent' = Event("input_added", name, 1 - lastEvent.seq)
    /\ UNCHANGED <<initialized_, observer_, midi_out_, opened, initFault, initRet, initTick>>
    /\ UNCHANGED <<envVars, noteVars, queueVars, dispVars>>

onOutputAdded(name) ==
    /\ observer_
    /\ LET r == portAdded(midi_out_, out_connected, config_.outputPortName, name)
       IN  /\ midi_out_' = r.dev
           /\ out_connected' = r.connected
    /\ lastEvent' = Event("output_added", name, 1 - lastEvent.seq)
    /\ UNCHANGED <<initialized_, observer_, midi_in_, opened, initFault, initRet,
                   in_connected, initTick>>
    /\ UNCHANGED <<active_notes_, lastOp, tick, lastWire, prevOp, prevWire, sent, trace,
                   lastSteps, lastArgs>>
    /\ UNCHANGED <<envVars, queueVars, dispVars>>

\* .input_removed / .output_removed: a log line.
onPortRemoved(kind, name) ==
    /\ observer_
    /\ lastEvent' = Event(kind, name, 1 - lastEvent.seq)
    /\ UNCHANGED <<initialized_, observer_, midi_in_, midi_out_, opened, initFault,
                   initRet, in_connected, initTick>>
    /\ UNCHANGED <<envVars, noteVars, queueVars, dispVars>>

\* The backend stops, or resumes, reporting the opened input as connected.
InputLost ==
    /\ in_connected
    /\ in_connected' = FALSE
    /\ UNCHANGED <<initialized_, observer_, midi_in_, midi_out_, opened, initFault,
                   initRet, initTick, lastEvent>>
    /\ UNCHANGED <<envVars, noteVars, queueVars, dispVars>>

InputBack ==
    /\ ~in_connected
    /\ in_connected' = TRUE
    /\ UNCHANGED <<initialized_, observer_, midi_in_, midi_out_, opened, initFault,
                   initRet, initTick, lastEvent>>
    /\ UNCHANGED <<envVars, noteVars, queueVars, dispVars>>

(***************************************************************************)
(* The send operations and allNotesOff().                                  *)
(***************************************************************************)
\* !midi_out_ || !midi_out_->is_port_connected(), negated
OutputConnected == midi_out_.created /\ midi_out_.port.open /\ out_connected

\* The bytes of the messages the send operations build.
NoteOnBytesNarrowMask(channel, note, velocity) ==
    <<144 + (channel % 8), Mask7(note), Mask7(velocity)>>
NoteOnBytes(channel, note, velocity) ==
    <<144 + LowNibble(channel), Mask7(note), Mask7(velocity)>>
NoteOffBytes(channel, note, velocity) ==
    <<128 + LowNibble(channel), Mask7(note), Mask7(velocity)>>

\* One statement of a send operation that acts on the registry or on the
\* backend; ok tells whether the backend carried it out.
Step(name, ok) == [step |-> name, ok |-> ok]

\* sendNoteOn / sendNoteOff on a registry, the output connected or not, the
\* backend carrying out the write (wrote) or failing it silently: the registry
\* afterwards, the messages given to send_message and the statements run.
noteOnMarksWhenDisconnected(notes, channel, note, velocity, connected, wrote) ==
    [notes |-> markNoteActive(notes, channel, note),
     wire  |-> IF connected THEN <<NoteOnBytes(channel, note, velocity)>> ELSE <<>>,
     steps |-> IF connected
               THEN <<Step("markNoteActive", TRUE), Step("send_message", wrote)>>
               ELSE <<>>]

noteOnMarksAfterWrite(notes, channel, note, velocity, connected, wrote) ==
    IF ~connected THEN [notes |-> notes, wire |-> <<>>, steps |-> <<>>]
    ELSE [notes |-> IF wrote THEN markNoteActive(notes, channel, note) ELSE notes,
          wire  |-> <<NoteOnBytes(channel, note, velocity)>>,
          steps |-> <<Step("send_message", wrote)>> \o
                    (IF wrote THEN <<Step("markNoteActive", TRUE)>> ELSE <<>>)]

noteOn(notes, channel, note, velocity, connected, wrote) ==
    IF ~connected THEN [notes |-> notes, wire |-> <<>>, steps |-> <<>>]     \* :289
    ELSE [notes |-> markNoteActive(notes, channel, note),                   \* :291
          wire  |-> <<NoteOnBytes(channel, note, velocity)>>,               \* :292-298
          steps |-> <<Step("markNoteActive", TRUE), Step("send_message", wrote)>>]

noteOff(notes, channel, note, velocity, connected, wrote) ==
    IF ~connected THEN [notes |-> notes, wire |-> <<>>, steps |-> <<>>]     \* :302
    ELSE [notes |-> markNoteInactive(notes, channel, note),                 \* :304
          wire  |-> <<NoteOffBytes(channel, note, velocity)>>,              \* :305-311
          steps |-> <<Step("markNoteInactive", TRUE), Step("send_message", wrote)>>]

\* allNotesOff() from slot k on, w being what it has written so far.  Whether
\* the backend carries out a write plays no part in what the loop does.
RECURSIVE allNotesOffLeavesActive(_, _, _, _)
allNotesOffLeavesActive(notes, k, w, connected) ==
    IF k > Len(notes) THEN [notes |-> notes, wire |-> w]
    ELSE IF notes[k].active
    THEN LET r == noteOff(notes, notes[k].channel, notes[k].note, 0, connected, TRUE)
         IN  allNotesOffLeavesActive(notes, k + 1, w \o r.wire, connected)
    ELSE allNotesOffLeavesActive(notes, k + 1, w, connected)

RECURSIVE allNotesOffNewestFirst(_, _, _, _)
allNotesOffNewestFirst(notes, k, w, connected) ==
    IF k > Len(notes) THEN [notes |-> notes, wire |-> w]
    ELSE IF notes[k].active
    THEN LET r == noteOff(notes, notes[k].channel, notes[k].note, 0, connected, TRUE)
         IN  allNotesOffNewestFirst([r.notes EXCEPT ![k].active = FALSE],
                                    k + 1, r.wire \o w, connected)
    ELSE allNotesOffNewestFirst(notes, k + 1, w, connected)

RECURSIVE allNotesOffKeepsUnsent(_, _, _, _)
allNotesOffKeepsUnsent(notes, k, w, connected) ==
    IF k > Len(notes) THEN [notes |-> notes, wire |-> w]
    ELSE IF notes[k].active
    THEN LET r == noteOff(notes, notes[k].channel, notes[k].note, 0, connected, TRUE)
         IN  allNotesOffKeepsUnsent(r.notes, k + 1, w \o r.wire, connected)
    ELSE allNotesOffKeepsUnsent(notes, k + 1, w, connected)

RECURSIVE allNotesOffFrom(_, _, _, _)
allNotesOffFrom(notes, k, w, connected) ==
    IF k > Len(notes) THEN [notes |-> notes, wire |-> w]
    ELSE IF notes[k].active                                             \* :391
    THEN LET r == noteOff(notes, notes[k].channel, notes[k].note, 0, connected, TRUE)
         IN  allNotesOffFrom([r.notes EXCEPT ![k].active = FALSE],      \* :392-393
                             k + 1, w \o r.wire, connected)
    ELSE allNotesOffFrom(notes, k + 1, w, connected)

\* Channels, notes and velocities the callers pass in SpecNotes.
Channels   == {0, 1}
Notes      == {60, 61}
Velocities == {100}

\* Largest config_.maxActiveNotes the model runs.
MaxNotes == 2
\* sent records up to this many sendNoteOn calls.
MaxSent == MaxNotes + 1

sendNoteOn(channel, note, velocity) ==
    /\ \E wrote \in BOOLEAN :
          LET r == noteOn(active_notes_, channel, note, velocity, OutputConnected, wrote)
          IN  /\ active_notes_' = r.notes
              /\ lastWire' = r.wire
              /\ lastSteps' = r.steps
    /\ lastOp' = "sendNoteOn"
    /\ lastArgs' = <<>>
    /\ prevOp' = lastOp
    /\ prevWire' = lastWire
    /\ tick' = 1 - tick
    /\ IF ~OutputConnected THEN UNCHANGED <<sent, trace>>
       ELSE IF trace = "fresh" /\ Len(sent) < MaxSent
       THEN sent' = Append(sent, <<channel, note>>) /\ UNCHANGED trace
       ELSE trace' = "mixed" /\ sent' = <<>>
    /\ UNCHANGED out_connected
    /\ UNCHANGED <<envVars, portVars, queueVars, dispVars>>

sendNoteOff(channel, note, velocity) ==
    /\ \E wrote \in BOOLEAN :
          LET r == noteOff(active_notes_, channel, note, velocity, OutputConnected, wrote)
          IN  /\ active_notes_' = r.notes
              /\ lastWire' = r.wire
              /\ lastSteps' = r.steps
    /\ lastOp' = "sendNoteOff"
    /\ lastArgs' = <<>>
    /\ prevOp' = lastOp
    /\ prevWire' = lastWire
    /\ tick' = 1 - tick
    /\ IF OutputConnected
       THEN trace' = "mixed" /\ sent' = <<>>
       ELSE UNCHANGED <<sent, trace>>
    /\ UNCHANGED out_connected
    /\ UNCHANGED <<envVars, portVars, queueVars, dispVars>>

allNotesOff ==
    /\ LET r == allNotesOffFrom(active_notes_, 1, <<>>, OutputConnected)
       IN  /\ active_notes_' = r.notes
           /\ lastWire' = r.wire
    /\ lastOp' = "allNotesOff"
    /\ lastArgs' = <<>>
    /\ prevOp' = lastOp
    /\ prevWire' = lastWire
    /\ tick' = 1 - tick
    /\ IF trace = "fresh" /\ OutputConnected
       THEN trace' = "flushed" /\ UNCHANGED sent
       ELSE trace' = "mixed" /\ sent' = <<>>
    /\ UNCHANGED <<out_connected, lastSteps>>
    /\ UNCHANGED <<envVars, portVars, queueVars, dispVars>>

\* The bytes of the other channel messages.
CCBytes(channel, cc, value) ==
    <<176 + LowNibble(channel), Mask7(cc), Mask7(value)>>
ProgramChangeBytes(channel, program) ==
    <<192 + LowNibble(channel), Mask7(program)>>
ChannelPressureBytes(channel, pressure) ==
    <<208 + LowNibble(channel), Mask7(pressure)>>
\* bend = static_cast<uint16_t>(value + 8192), then its two 7-bit halves.
PitchBendBytesMsbFirst(channel, value) ==
    LET bend == (value + 8192) % 65536
    IN  <<224 + LowNibble(channel), Mask7(bend \div 128), Mask7(bend)>>

PitchBendBytes(channel, value) ==
    LET bend == (value + 8192) % 65536
    IN  <<224 + LowNibble(channel), Mask7(bend), Mask7(bend \div 128)>>

\* if (!midi_out_ || !midi_out_->is_port_connected()) return; then
\* send_message(msg): the messages written.
writeAlways(bytes, connected) == <<bytes>>

write(bytes, connected) == IF ~connected THEN <<>> ELSE <<bytes>>

\* A send operation that does not touch the registry.
sendPlain(op, args, bytes) ==
    /\ lastWire' = write(bytes, OutputConnected)
    /\ lastOp' = op
    /\ lastArgs' = args
    /\ prevOp' = lastOp
    /\ prevWire' = lastWire
    /\ tick' = 1 - tick
    /\ UNCHANGED <<active_notes_, out_connected, sent, trace, lastSteps>>
    /\ UNCHANGED <<envVars, portVars, queueVars, dispVars>>

sendCC(channel, cc, value) ==
    sendPlain("sendCC", <<channel, cc, value>>, CCBytes(channel, cc, value))
sendSysEx(data) == sendPlain("sendSysEx", <<data>>, data)
sendProgramChange(channel, program) ==
    sendPlain("sendProgramChange", <<channel, program>>,
              ProgramChangeBytes(channel, program))
sendPitchBend(channel, value) ==
    sendPlain("sendPitchBend", <<channel, value>>, PitchBendBytes(channel, value))
sendChannelPressure(channel, pressure) ==
    sendPlain("sendChannelPressure", <<channel, pressure>>,
              ChannelPressureBytes(channel, pressure))
sendClock == sendPlain("sendClock", <<>>, <<248>>)
sendStart == sendPlain("sendStart", <<>>, <<250>>)
sendStop == sendPlain("sendStop", <<>>, <<252>>)
sendContinue == sendPlain("sendContinue", <<>>, <<251>>)

\* The backend stops, or resumes, reporting the opened output as connected.
OutputLost ==
    /\ out_connected
    /\ out_connected' = FALSE
    /\ UNCHANGED <<active_notes_, lastOp, tick, lastWire, prevOp, prevWire, sent, trace,
                   lastSteps, lastArgs>>
    /\ UNCHANGED <<envVars, portVars, queueVars, dispVars>>

OutputBack ==
    /\ ~out_connected
    /\ out_connected' = TRUE
    /\ UNCHANGED <<active_notes_, lastOp, tick, lastWire, prevOp, prevWire, sent, trace,
                   lastSteps, lastArgs>>
    /\ UNCHANGED <<envVars, portVars, queueVars, dispVars>>

(***************************************************************************)
(* Listeners and single-frame delivery.                                    *)
(***************************************************************************)
\* setOnX(cb): with a callable the listener is set, with an empty
\* std::function it is unset.
setOn(l, callable) ==
    /\ lastFrame = <<>>
    /\ listeners' = IF callable THEN listeners \cup {l} ELSE listeners \ {l}
    /\ UNCHANGED <<calls, lastFrame, lastCalls>>
    /\ UNCHANGED <<envVars, portVars, noteVars, queueVars>>

\* Longest frame the backend delivers in SpecDecode.
MaxFrameLen == 3

\* Status bytes: channel voice (0x80 0x81 0x90 0x9F 0xB0 0xB3), other channel
\* messages (0xC0 0xE0), system (0xF0..0xFF) and a stray data byte.
StatusBytes == {128, 129, 144, 159, 176, 179, 192, 224, 100} \cup (240..255)
DataBytes   == {0, 64, 127}
Stamps      == {3, 9}

RECURSIVE Tuples(_, _)
Tuples(S, n) ==
    IF n = 0 THEN {<<>>}
    ELSE {Append(t, x) : t \in Tuples(S, n - 1), x \in S}

\* Frames that start with 0xF0, with and without a closing 0xF7.
SysExFrames ==
    UNION {{<<240>> \o t : t \in Tuples({0, 247}, n)} : n \in 0..(MaxFrameLen - 1)}

DecodeFrames ==
    UNION {{<<st>> \o t : st \in StatusBytes, t \in Tuples(DataBytes, n)}
           : n \in 0..(MaxFrameLen - 1)}
      \cup SysExFrames

\* The backend delivers frame b at time t to an empty queue and update()
\* runs to completion: one processMessage call.  lastFrame and lastCalls
\* observe it until Forget clears them.
Deliver(b, t) ==
    /\ lastFrame = <<>>
    /\ lastFrame' = b
    /\ lastCalls' = processMessage(b, t, listeners)
    /\ active_notes_' = processMessageNotes(active_notes_, b)
    /\ clock' = t
    /\ UNCHANGED <<listeners, calls>>
    /\ UNCHANGED <<pending_messages_, pending_mutex_, upd, cb, offered, arrived,
                   swapArrived, accepted, processed, updProcessed>>
    /\ UNCHANGED <<out_connected, lastOp, tick, lastWire, prevOp, prevWire, sent, trace,
                   lastSteps, lastArgs>>
    /\ UNCHANGED <<envVars, portVars>>

Forget ==
    /\ lastFrame # <<>>
    /\ lastFrame' = <<>>
    /\ lastCalls' = <<>>
    /\ UNCHANGED <<listeners, calls>>
    /\ UNCHANGED <<envVars, portVars, noteVars, queueVars>>

\* A listener that sends back what it was called with (MIDI thru): the send
\* operation matching the last listener invocation, with its arguments,
\* called after update() or from inside the listener.
Echo ==
    /\ upd.pc \in {"idle", "dispatch"}
    /\ lastCalls # <<>>
    /\ LET c == lastCalls[1]
       IN  \/ c.listener = "on_note_on_" /\ sendNoteOn(c.args[1], c.args[2], c.args[3])
           \/ c.listener = "on_note_off_" /\ sendNoteOff(c.args[1], c.args[2], c.args[3])
           \/ c.listener = "on_cc_" /\ sendCC(c.args[1], c.args[2], c.args[3])

(***************************************************************************)
(* Initial states and specifications.                                      *)
(***************************************************************************)
\* Display names and name patterns.
PortNames    == {<<"A", "b">>, <<"b", "a">>}
PortPatterns == {<<>>, <<"a">>, <<"b">>, <<"b", "a">>, <<"a", "b">>}

\* Most ports the backend enumerates per direction.
MaxPorts == 2

PortLists == UNION {Tuples(PortNames, n) : n \in 0..MaxPorts}

Config(n, ip, op, v) ==
    [maxActiveNotes |-> n, inputPortName |-> ip, outputPortName |-> op,
     useVirtualPorts |-> v]

MembersAre(m) ==
    /\ initialized_ = m.initialized_
    /\ observer_ = m.observer_
    /\ midi_in_ = m.midi_in_
    /\ midi_out_ = m.midi_out_
    /\ active_notes_ = m.active_notes_
    /\ opened = m.opened
    /\ initRet = m.ret
    /\ initFault = "none"
    /\ in_connected = TRUE
    /\ initTick = 0
    /\ lastEvent = NoEvent

QueueIdle ==
    /\ pending_messages_ = <<>>
    /\ pending_mutex_ = "free"
    /\ upd = [pc |-> "idle", local |-> <<>>, i |-> 1]
    /\ cb = [t \in Producers |-> [pc |-> "idle", pending |-> NoPending]]
    /\ clock = 0
    /\ offered = <<>>
    /\ arrived = <<>>
    /\ swapArrived = <<>>
    /\ accepted = <<>>
    /\ processed = <<>>
    /\ updProcessed = <<>>

NothingDispatched ==
    /\ calls = <<>>
    /\ lastFrame = <<>>
    /\ lastCalls = <<>>

NothingSent ==
    /\ out_connected = TRUE
    /\ lastOp = "none"
    /\ tick = 0
    /\ lastWire = <<>>
    /\ prevOp = "none"
    /\ prevWire = <<>>
    /\ sent = <<>>
    /\ trace = "fresh"
    /\ lastSteps = <<>>
    /\ lastArgs = <<>>

\* A desktop transport after a successful init() that found one port of each
\* direction.
OnePortEach ==
    /\ build = "desktop"
    /\ config_ = Config(MaxNotes, <<>>, <<>>, FALSE)
    /\ in_ports = <<<<"b", "a">>>>
    /\ out_ports = <<<<"b", "a">>>>
    /\ MembersAre(initOutcome(Constructed, build, config_, in_ports, out_ports, "none"))

\* ---- SpecQueue
InitQueue ==
    /\ OnePortEach
    /\ QueueIdle
    /\ NothingDispatched
    /\ NothingSent
    /\ listeners = AllListeners

NextQueue ==
    \/ \E t \in Producers, b \in QueueFrames : CbBegin(t, b)
    \/ \E t \in Producers : CbAcquire(t)
    \/ \E t \in Producers : CbPush(t)
    \/ UpdBegin
    \/ UpdAcquire
    \/ UpdSwap
    \/ UpdProcess
    \/ UpdReturn

SpecQueue == InitQueue /\ [][NextQueue]_vars

\* ---- SpecPump
\* The queue with a NoteOn and a Clock as the frames delivered, under the
\* scheduling the code runs under: the application calls
\* update() again and again, a thread inside update() or inside the callback's
\* locked block keeps running, and a thread waiting for pending_mutex_ gets it
\* if it is free again and again.  Nothing makes the backend deliver a frame.
PumpFrames == {<<144, 60, 100>>, <<248>>}

NextPump ==
    \/ \E t \in Producers, b \in PumpFrames : CbBegin(t, b)
    \/ \E t \in Producers : CbAcquire(t)
    \/ \E t \in Producers : CbPush(t)
    \/ UpdBegin
    \/ UpdAcquire
    \/ UpdSwap
    \/ UpdProcess
    \/ UpdReturn

SpecPump ==
    /\ InitQueue
    /\ [][NextPump]_vars
    /\ WF_vars(UpdBegin)
    /\ SF_vars(UpdAcquire)
    /\ WF_vars(UpdSwap)
    /\ WF_vars(UpdProcess)
    /\ WF_vars(UpdReturn)
    /\ \A t \in Producers : WF_vars(CbPush(t))

\* ---- SpecDecode
InitDecode ==
    /\ OnePortEach
    /\ QueueIdle
    /\ NothingDispatched
    /\ NothingSent
    /\ listeners = {}

NextDecode ==
    \/ \E l \in AllListeners, callable \in BOOLEAN : setOn(l, callable)
    \/ \E b \in DecodeFrames, t \in Stamps : Deliver(b, t)
    \/ Forget

SpecDecode == InitDecode /\ [][NextDecode]_vars

\* ---- SpecNotes
InitNotes ==
    /\ build = "desktop"
    /\ \E n \in 0..MaxNotes : config_ = Config(n, <<>>, <<>>, FALSE)
    /\ in_ports = <<>>
    /\ out_ports \in {<<>>, <<<<"b", "a">>>>}
    /\ MembersAre(Constructed)
    /\ QueueIdle
    /\ NothingDispatched
    /\ NothingSent
    /\ listeners = {}

\* init() is called once; repeated calls are SpecReady's and SpecInit's.
NextNotes ==
    \/ \E fault \in Faults : initTick = 0 /\ init(fault)
    \/ \E c \in Channels, n \in Notes, v \in Velocities : sendNoteOn(c, n, v)
    \/ \E c \in Channels, n \in Notes, v \in Velocities : sendNoteOff(c, n, v)
    \/ allNotesOff
    \/ OutputLost
    \/ OutputBack

SpecNotes == InitNotes /\ [][NextNotes]_vars

\* ---- SpecInit
InitInit ==
    /\ build \in {"desktop", "apple", "emscripten"}
    /\ \E ip \in PortPatterns, op \in PortPatterns, v \in BOOLEAN :
          config_ = Config(MaxNotes, ip, op, v)
    /\ in_ports \in PortLists
    /\ out_ports \in PortLists
    /\ MembersAre(Constructed)
    /\ QueueIdle
    /\ NothingDispatched
    /\ NothingSent
    /\ listeners = {}

NextInit == \E fault \in Faults : init(fault)

SpecInit == InitInit /\ [][NextInit]_vars

\* ---- SpecEcho
\* Three-byte channel-voice frames: NoteOff and NoteOn on channel 0, NoteOn
\* and Control Change on channel 15, data bytes at both ends of their range.
EchoFrames == {<<st, d1, d2>> : st \in {128, 144, 159, 191},
                                d1 \in {0, 127}, d2 \in {0, 127}}

\* The queue after the callback has pushed the frames of q onto it.
QueueHolds(q) ==
    LET pushed == [k \in 1..Len(q) |-> PendingMessage(q[k], k - 1)]
    IN  /\ pending_messages_ = pushed
        /\ pending_mutex_ = "free"
        /\ upd = [pc |-> "idle", local |-> <<>>, i |-> 1]
        /\ cb = [t \in Producers |-> [pc |-> "idle", pending |-> NoPending]]
        /\ clock = Len(q)
        /\ offered = q
        /\ arrived = pushed
        /\ swapArrived = <<>>
        /\ accepted = pushed
        /\ processed = <<>>
        /\ updProcessed = <<>>

InitEcho ==
    /\ OnePortEach
    /\ \E n \in 1..max_pending_messages_ : \E q \in Tuples(EchoFrames, n) : QueueHolds(q)
    /\ NothingDispatched
    /\ NothingSent
    /\ listeners = AllListeners

NextEcho ==
    \/ UpdBegin
    \/ UpdAcquire
    \/ UpdSwap
    \/ UpdProcess
    \/ UpdReturn
    \/ Echo

SpecEcho == InitEcho /\ [][NextEcho]_vars

\* ---- SpecSend
\* Every send operation, on an output that may be missing, unbound or
\* reported disconnected.
InitSend ==
    /\ build = "desktop"
    /\ config_ = Config(MaxNotes, <<>>, <<>>, FALSE)
    /\ in_ports = <<>>
    /\ out_ports \in {<<>>, <<<<"b", "a">>>>}
    /\ MembersAre(Constructed)
    /\ QueueIdle
    /\ NothingDispatched
    /\ NothingSent
    /\ listeners = {}

NextSend ==
    \/ init("none")
    \/ \E n \in Notes : sendNoteOn(0, n, 100)
    \/ sendNoteOff(0, 60, 0)
    \/ sendCC(1, 7, 127)
    \/ sendSysEx(<<240, 1, 247>>)
    \/ sendProgramChange(1, 5)
    \/ \E value \in {-8192, 8191} : sendPitchBend(0, value)
    \/ sendChannelPressure(15, 64)
    \/ sendClock
    \/ sendStart
    \/ sendStop
    \/ sendContinue
    \/ OutputLost
    \/ OutputBack

SpecSend == InitSend /\ [][NextSend]_vars

\* ---- SpecBend
\* sendPitchBend over channels (16 is beyond the 4 bits of a channel) and
\* int16_t values: the ends of the 14-bit range, the 7-bit carries, the
\* centre, and values outside the range.
BendChannels == {0, 9, 15, 16}
BendValues   == {-32768, -8193, -8192, -8191, -129, -128, -1, 0, 1, 127, 128,
                 8190, 8191, 8192, 32767}

InitBend ==
    /\ OnePortEach
    /\ QueueIdle
    /\ NothingDispatched
    /\ NothingSent
    /\ listeners = {}

NextBend ==
    \/ \E c \in BendChannels, value \in BendValues : sendPitchBend(c, value)
    \/ OutputLost
    \/ OutputBack

SpecBend == InitBend /\ [][NextBend]_vars

\* ---- SpecReady
\* A Ready transport: one producer thread, notes going out, init() again.
InitReady ==
    /\ OnePortEach
    /\ QueueIdle
    /\ NothingDispatched
    /\ NothingSent
    /\ listeners = {}

NextReady ==
    \/ \E fault \in Faults : init(fault)
    \/ \E n \in Notes, v \in Velocities : sendNoteOn(0, n, v)
    \/ \E b \in {<<248>>, <<144, 60, 100>>} : CbBegin("p1", b)
    \/ CbAcquire("p1")
    \/ CbPush("p1")

SpecReady == InitReady /\ [][NextReady]_vars

\* ---- SpecAsync
InitAsync ==
    /\ build \in {"desktop", "emscripten"}
    /\ \E ip \in PortPatterns, op \in PortPatterns :
          config_ = Config(MaxNotes, ip, op, FALSE)
    /\ in_ports \in {<<>>, <<<<"b", "a">>>>}
    /\ out_ports \in {<<>>, <<<<"b", "a">>>>}
    /\ MembersAre(Constructed)
    /\ QueueIdle
    /\ NothingDispatched
    /\ NothingSent
    /\ listeners = {}

NextAsync ==
    \/ \E fault \in Faults : init(fault)
    \/ \E name \in PortNames : onInputAdded(name)
    \/ \E name \in PortNames : onOutputAdded(name)
    \/ \E name \in PortNames : onPortRemoved("input_removed", name)
    \/ \E name \in PortNames : onPortRemoved("output_removed", name)
    \/ InputLost
    \/ InputBack
    \/ OutputLost
    \/ OutputBack

SpecAsync == InitAsync /\ [][NextAsync]_vars

(***************************************************************************)
(* Properties of the inbound queue and the pump (SpecQueue).               *)
(***************************************************************************)
Take(q, n) == SubSeq(q, 1, Min(n, Len(q)))
Drop(q, n) == SubSeq(q, n + 1, Len(q))
Last(q)    == q[Len(q)]

\* The listener invocation each frame of the end-to-end scenario stands for,
\* every listener being set: NoteOn(0,60,100), Clock, NoteOff(0,60,0); the
\* other frames of QueueFrames stand for none.
ScenarioCalls(p) ==
    CASE p.bytes = <<144, 60, 100>> -> <<Call("on_note_on_", <<0, 60, 100>>)>>
      [] p.bytes = <<248>>          -> <<Call("on_clock_", <<p.timestampUs>>)>>
      [] p.bytes = <<128, 60, 0>>   -> <<Call("on_note_off_", <<0, 60, 0>>)>>
      [] OTHER                      -> <<>>

RECURSIVE ScenarioCallsOf(_)
ScenarioCallsOf(q) ==
    IF Len(q) = 0 THEN <<>> ELSE ScenarioCalls(q[1]) \o ScenarioCallsOf(Tail(q))

\* C1: update() hands the frames to processMessage in the order they were
\* pushed onto the queue, over any number of update() calls, and the listener
\* invocations follow in that same order; a Clock pushed between a NoteOn and
\* a NoteOff is dispatched between them.
C1_DispatchIsFifo ==
    /\ processed = Take(accepted, Len(processed))
    /\ Len(processed) <= Len(accepted)
    /\ calls = ScenarioCallsOf(processed)

\* A NoteOn, a Clock and a NoteOff were pushed in that order and dispatched.
C1_Witness ==
    /\ Len(processed) = 3
    /\ processed[1].bytes = <<144, 60, 100>>
    /\ processed[2].bytes = <<248>>
    /\ processed[3].bytes = <<128, 60, 0>>
    /\ calls = <<Call("on_note_on_", <<0, 60, 100>>),
                 Call("on_clock_", <<processed[2].timestampUs>>),
                 Call("on_note_off_", <<0, 60, 0>>)>>

\* C2: the queue always holds the first max_pending_messages_ of the non-empty
\* frames that reached it since the last swap, and an update() processes
\* exactly those, in order: what arrived beyond the capacity is discarded.
C2_OverflowDropsNewest ==
    /\ pending_messages_ = Take(arrived, max_pending_messages_)
    /\ upd.pc = "dispatch" =>
          /\ upd.local = Take(swapArrived, max_pending_messages_)
          /\ updProcessed = Take(upd.local, upd.i - 1)
    /\ (upd.pc = "dispatch" /\ upd.i > Len(upd.local)) =>
          updProcessed = Take(swapArrived, max_pending_messages_)

\* An update() has finished a batch for which capacity+1 frames had arrived.
C2_Witness ==
    /\ upd.pc = "dispatch"
    /\ upd.i > Len(upd.local)
    /\ Len(swapArrived) = max_pending_messages_ + 1
    /\ updProcessed = SubSeq(swapArrived, 1, max_pending_messages_)
    /\ Last(swapArrived) \notin {processed[k] : k \in 1..Len(processed)}

\* C3: pending_messages_ never holds more than max_pending_messages_ frames.
C3_QueueBounded == Len(pending_messages_) <= max_pending_messages_

\* The queue is full, a producer holds the lock with one more frame, and
\* update() is in its dispatch loop.
C3_Witness ==
    /\ Len(pending_messages_) = max_pending_messages_
    /\ \E t \in Producers : cb[t].pc = "locked"
    /\ upd.pc = "dispatch"

\* C4: every frame pushed onto the queue is handed to processMessage exactly
\* once: the frames pushed so far are those processed, then those update()
\* still holds in local, then those in the queue, without repetition; the
\* queue is empty right after the swap.
C4_ExactlyOnce ==
    /\ accepted = processed \o Drop(upd.local, upd.i - 1) \o pending_messages_
    /\ \A j, k \in 1..Len(processed) : processed[j] = processed[k] => j = k
    /\ (upd.pc = "dispatch" /\ arrived = <<>>) => pending_messages_ = <<>>

\* A frame was pushed while update() was still dispatching its batch.
C4_Witness ==
    /\ upd.pc = "dispatch"
    /\ upd.i <= Len(upd.local)
    /\ pending_messages_ # <<>>
    /\ processed # <<>>

\* A frame of 1 or 2 bytes with status 0x8n, 0x9n or 0xBn.
IsTruncatedVoice(b) ==
    /\ Len(b) \in {1, 2}
    /\ HighNibble(b[1]) \in {128, 144, 176}

Delivered == lastFrame # <<>>

ListenersCalled == {lastCalls[k].listener : k \in 1..Len(lastCalls)}

\* A frame of at least 3 bytes with status 0x9n and velocity byte 0.
IsNoteOnVelocityZero(b) ==
    /\ Len(b) >= 3
    /\ HighNibble(b[1]) = 144
    /\ b[3] = 0

\* C5: a NoteOn frame with velocity 0 is dispatched as NoteOff(channel, note,
\* 0) and never reaches the NoteOn listener, whichever listeners are set: the
\* NoteOn listener is only ever called with velocity >= 1.
C5_NoteOnZeroIsNoteOff ==
    /\ (Delivered /\ IsNoteOnVelocityZero(lastFrame)) =>
          /\ "on_note_on_" \notin ListenersCalled
          /\ \A k \in 1..Len(lastCalls) :
                lastCalls[k] = Call("on_note_off_",
                                    <<LowNibble(lastFrame[1]), lastFrame[2], 0>>)
    /\ \A k \in 1..Len(lastCalls) :
          lastCalls[k].listener = "on_note_on_" => lastCalls[k].args[3] >= 1

\* The listener a realtime status byte belongs to.
RealtimeListener(status) ==
    CASE status = 248 -> "on_clock_"
      [] status = 250 -> "on_start_"
      [] status = 251 -> "on_continue_"
      [] status = 252 -> "on_stop_"

\* C6: a frame starting with 0xF8, 0xFA, 0xFB or 0xFC invokes the Clock,
\* Start, Continue or Stop listener, once, and no other listener, whatever
\* its length and the bytes after the first (nothing is invoked when that
\* listener is not set).
C6_RealtimeByFirstByte ==
    (Delivered /\ lastFrame[1] \in {248, 250, 251, 252}) =>
        LET l == RealtimeListener(lastFrame[1])
            a == IF l = "on_clock_" THEN <<clock>> ELSE <<>>
        IN  /\ l \in listeners    => lastCalls = <<Call(l, a)>>
            /\ l \notin listeners => lastCalls = <<>>

\* A 3-byte frame starting with 0xFB reached the Continue listener alone,
\* every listener being set.
C6_Witness ==
    /\ listeners = AllListeners
    /\ Len(lastFrame) = 3
    /\ lastFrame[1] = 251
    /\ lastCalls = <<Call("on_continue_", <<>>)>>

(***************************************************************************)
(* Properties of the active-note registry (SpecNotes).                     *)
(***************************************************************************)
Count(w, m) == Cardinality({k \in 1..Len(w) : w[k] = m})

Distinct(q) == \A j, k \in 1..Len(q) : q[j] = q[k] => j = k

\* The NoteOff message for a (channel, note) pair, velocity 0.
NoteOffFor(pair) == <<128 + pair[1], pair[2], 0>>

\* C8: on a connected output and a registry of maxActiveNotes = N >= 1 slots
\* that init() left empty, sendNoteOn for N+1 distinct (channel, note) pairs
\* and then allNotesOff() writes N NoteOff messages: none for the first pair
\* and exactly one for each of the other N.
C8_FirstNoteEvicted ==
    LET N == config_.maxActiveNotes
    IN  (/\ trace = "flushed" /\ lastOp = "allNotesOff"
         /\ N >= 1 /\ Len(sent) = N + 1 /\ Distinct(sent)) =>
            /\ Len(lastWire) = N
            /\ Count(lastWire, NoteOffFor(sent[1])) = 0
            /\ \A k \in 2..(N + 1) : Count(lastWire, NoteOffFor(sent[k])) = 1

\* Three distinct notes went to a registry of two slots, then allNotesOff().
C8_Witness ==
    /\ config_.maxActiveNotes = 2
    /\ trace = "flushed"
    /\ lastOp = "allNotesOff"
    /\ Len(sent) = 3
    /\ Distinct(sent)
    /\ lastWire = <<NoteOffFor(sent[3]), NoteOffFor(sent[2])>>

\* C9: an allNotesOff() call made right after an allNotesOff() call writes
\* nothing and leaves the registry as it was, every slot inactive.
C9_AllNotesOffIdempotent ==
    [][(lastOp = "allNotesOff" /\ lastOp' = "allNotesOff" /\ tick' # tick) =>
          /\ lastWire' = <<>>
          /\ active_notes_' = active_notes_
          /\ \A k \in 1..Len(active_notes_') : ~active_notes_'[k].active]_vars

\* Two allNotesOff() calls in a row, the first of which wrote NoteOffs.
C9_Witness ==
    /\ prevOp = "allNotesOff"
    /\ lastOp = "allNotesOff"
    /\ prevWire # <<>>
    /\ lastWire = <<>>

(***************************************************************************)
(* Properties of port discovery (SpecInit).                                *)
(***************************************************************************)
\* The build and configuration in which init() enumerates existing ports.
SyncDiscovery ==
    /\ build # "emscripten"
    /\ ~(build = "apple" /\ config_.useVirtualPorts)

\* pattern occurs in name as a contiguous run of the same characters.
IsSubstring(pattern, name) ==
    \E a \in 0..Len(name), b \in 0..Len(name) :
        a <= b /\ SubSeq(name, a + 1, b) = pattern

Candidates(ports, pattern) ==
    {i \in 1..Len(ports) : IsSubstring(pattern, ports[i])}

Lowest(S) == CHOOSE i \in S : \A j \in S : i <= j

OpenedIn(dir) == {k \in 1..Len(opened) : opened[k].dir = dir}

\* The object of a direction holds the lowest-index candidate and init()
\* opened that port alone; without a candidate it opened none.
BoundToFirstMatch(dev, dir, ports, pattern) ==
    LET S == Candidates(ports, pattern)
    IN  IF S = {}
        THEN ~dev.port.open /\ OpenedIn(dir) = {}
        ELSE /\ dev.port = Port(Lowest(S), ports[Lowest(S)])
             /\ \E k \in 1..Len(opened) :
                   /\ OpenedIn(dir) = {k}
                   /\ opened[k] = Opening(dir, Lowest(S), ports[Lowest(S)])

\* C10: where init() enumerates existing ports, a transport that is Ready has
\* each direction bound to the lowest-index port whose name contains that
\* direction's pattern, having opened no other port, and is unbound where no
\* port matches; and an init() during which the backend raises nothing
\* returns success and leaves the transport Ready, match or no match.
C10_FirstMatchPerDirection ==
    SyncDiscovery =>
        /\ initialized_ =>
              /\ BoundToFirstMatch(midi_in_, "in", in_ports, config_.inputPortName)
              /\ BoundToFirstMatch(midi_out_, "out", out_ports, config_.outputPortName)
        /\ (initRet # "none" /\ initFault = "none") =>
              initialized_ /\ initRet = "ok"

\* init() passed over input 1, bound input 2, found no output and succeeded.
C10_Witness ==
    /\ SyncDiscovery
    /\ initialized_
    /\ initRet = "ok"
    /\ Len(in_ports) = 2
    /\ midi_in_.port = Port(2, in_ports[2])
    /\ Len(out_ports) > 0
    /\ ~midi_out_.port.open

(***************************************************************************)
(* Properties of the port bindings over the transport's life (SpecAsync).  *)
(***************************************************************************)
\* The name matches the pattern: the pattern is empty or occurs in the name.
NameMatches(name, pattern) == Len(pattern) = 0 \/ IsSubstring(pattern, name)

\* The step replaces the port a direction is bound to by a different port.
Rebinds(dev, devNext) ==
    dev.port.open /\ devNext.port.open /\ devNext.port # dev.port

\* The step takes from a direction the port it is bound to, for another port
\* or for none.
Unbinds(dev, devNext) == dev.port.open /\ devNext.port # dev.port

\* C11 as claimed: once a direction holds a port, no step gives that
\* direction a different port, whatever happens: init(), notifications of
\* ports added or removed, or the backend reporting the port disconnected.
C11_BindingNeverReplaced ==
    [][/\ ~Rebinds(midi_in_, midi_in_')
       /\ ~Rebinds(midi_out_, midi_out_')]_vars

\* C11 as the code has it: once the transport is Ready, a step takes from a
\* direction the port it is bound to only when it is a port-added
\* notification of that direction arriving after the backend has reported the
\* bound port disconnected, and the port it binds instead is the announced
\* one, whose name matches the pattern; init(), port-removed notifications and
\* the loss of the connection itself replace nothing, and as long as the bound
\* port is reported connected the binding stays.
C11_BindingReplacedOnlyAfterLoss ==
    [][/\ (initialized_ /\ Unbinds(midi_in_, midi_in_')) =>
             /\ ~in_connected
             /\ lastEvent' # lastEvent
             /\ lastEvent'.kind = "input_added"
             /\ midi_in_'.port = Announced(lastEvent'.name)
             /\ NameMatches(lastEvent'.name, config_.inputPortName)
       /\ (initialized_ /\ Unbinds(midi_out_, midi_out_')) =>
             /\ ~out_connected
             /\ lastEvent' # lastEvent
             /\ lastEvent'.kind = "output_added"
             /\ midi_out_'.port = Announced(lastEvent'.name)
             /\ NameMatches(lastEvent'.name, config_.outputPortName)]_vars

\* With its input bound and connected, the transport was told of another
\* input whose name matches, and kept the port it had.
C11_Witness ==
    /\ initialized_
    /\ lastEvent.kind = "input_added"
    /\ IsConnected(midi_in_, in_connected)
    /\ midi_in_.port.name # lastEvent.name
    /\ NameMatches(lastEvent.name, config_.inputPortName)

\* What a port-added notification for a direction must do to that direction.
AddedBindsIff(dev, connected, pattern, name, devNext, connectedNext) ==
    IF ~IsConnected(dev, connected) /\ NameMatches(name, pattern)
    THEN /\ devNext.created
         /\ devNext.port = Announced(name)
         /\ connectedNext
    ELSE devNext = dev /\ connectedNext = connected

\* C12: an "input added" notification binds the announced port exactly when
\* no connected input is bound and the name matches the input pattern, and
\* otherwise changes nothing; likewise "output added"; and a notification for
\* one direction leaves the other direction, the registry, the queue and the
\* listeners as they were.
C12_AddedBindsWhenUnbound ==
    [][lastEvent' # lastEvent =>
         /\ lastEvent'.kind = "input_added" =>
               /\ AddedBindsIff(midi_in_, in_connected, config_.inputPortName,
                                lastEvent'.name, midi_in_', in_connected')
               /\ UNCHANGED <<midi_out_, out_connected>>
         /\ lastEvent'.kind = "output_added" =>
               /\ AddedBindsIff(midi_out_, out_connected, config_.outputPortName,
                                lastEvent'.name, midi_out_', out_connected')
               /\ UNCHANGED <<midi_in_, in_connected>>
         /\ UNCHANGED <<initialized_, observer_, active_notes_, pending_messages_,
                        listeners, config_>>]_vars

\* An output was announced whose name does not match the pattern, and then
\* an input that was bound, the output staying unbound.
C12_Witness ==
    /\ lastEvent.kind = "input_added"
    /\ midi_in_.port = Announced(lastEvent.name)
    /\ Len(config_.inputPortName) > 0
    /\ ~midi_out_.created
    /\ Len(config_.outputPortName) > 0

(***************************************************************************)
(* Properties of init() (SpecReady, SpecInit).                             *)
(***************************************************************************)
\* C13: an init() call on a Ready transport returns success and leaves the
\* transport Ready with its devices and the ports they hold, the registry
\* with its active notes, and the inbound queue as they were; it makes no
\* open_port call.
C13_InitIdempotentWhenReady ==
    [][(initialized_ /\ initTick' # initTick) =>
          /\ initRet' = "ok"
          /\ UNCHANGED <<initialized_, observer_, midi_in_, midi_out_, opened,
                         in_connected, out_connected>>
          /\ UNCHANGED active_notes_
          /\ UNCHANGED <<pending_messages_, pending_mutex_, cb>>]_vars

\* init() was called on a Ready transport that had a note active and a frame
\* pending.
C13_Witness ==
    /\ initialized_
    /\ initTick = 1
    /\ initRet = "ok"
    /\ \E k \in 1..Len(active_notes_) : active_notes_[k].active
    /\ pending_messages_ # <<>>
    /\ midi_in_.port.open
    /\ midi_out_.port.open

\* The backend raised in the last init() call that went past the early
\* return: a constructor, the enumeration, or an open call that init() made.
BackendRaised ==
    CASE build = "emscripten" -> initFault = "observer"
      [] build = "apple" /\ config_.useVirtualPorts ->
            \/ initFault \in {"midi_in", "midi_out"}
            \/ initFault = "open_in" /\ Len(config_.inputPortName) > 0
            \/ initFault = "open_out" /\ Len(config_.outputPortName) > 0
      [] OTHER ->
            \/ initFault \in {"midi_in", "midi_out", "observer"}
            \/ initFault = "open_in" /\ Candidates(in_ports, config_.inputPortName) # {}
            \/ initFault = "open_out" /\ Candidates(out_ports, config_.outputPortName) # {}

\* C14: every init() call returns a result, success or HARDWARE_INIT_FAILED;
\* a call on a transport that is not Ready returns HARDWARE_INIT_FAILED
\* exactly when the backend raised during it, and then the transport is not
\* Ready; a successful call leaves it Ready; and a Ready transport stays Ready.
C14_InitFailsIffBackendRaises ==
    [][/\ initialized_ => initialized_'
       /\ initTick' # initTick =>
             /\ initRet' \in {"ok", "HARDWARE_INIT_FAILED"}
             /\ ~initialized_ => (initRet' = "HARDWARE_INIT_FAILED" <=> BackendRaised')
             /\ initRet' = "HARDWARE_INIT_FAILED" => ~initialized_'
             /\ initRet' = "ok" => initialized_']_vars

\* Opening the output raised after the input had been opened: init() returned
\* HARDWARE_INIT_FAILED and the transport is not Ready.
C14_Witness ==
    /\ initRet = "HARDWARE_INIT_FAILED"
    /\ initFault = "open_out"
    /\ midi_in_.port.open
    /\ ~midi_out_.port.open
    /\ ~initialized_

(***************************************************************************)
(* Properties of the send operations (SpecSend).                           *)
(***************************************************************************)
SendOps == {"sendCC", "sendNoteOn", "sendNoteOff", "sendSysEx", "sendProgramChange",
            "sendPitchBend", "sendChannelPressure", "sendClock", "sendStart",
            "sendStop", "sendContinue"}

\* C15: a send operation called while there is no output device, no open
\* output port, or the backend reports the port disconnected gives nothing to
\* send_message, calls neither markNoteActive nor markNoteInactive, and leaves
\* the registry as it was.
C15_SendsSkippedWhenDisconnected ==
    [][(tick' # tick /\ lastOp' \in SendOps /\ ~OutputConnected) =>
          /\ lastWire' = <<>>
          /\ active_notes_' = active_notes_
          /\ lastOp' \in {"sendNoteOn", "sendNoteOff"} => lastSteps' = <<>>
          /\ UNCHANGED <<midi_out_, out_connected, initialized_>>]_vars

\* With a note active and the output reported disconnected, sendNoteOff for
\* that note and then sendNoteOn for another wrote nothing and the registry
\* kept the one note.
C15_Witness ==
    /\ midi_out_.port.open
    /\ ~out_connected
    /\ prevOp = "sendNoteOff"
    /\ prevWire = <<>>
    /\ lastOp = "sendNoteOn"
    /\ lastWire = <<>>
    /\ active_notes_[1] = ActiveNote(0, 60)
    /\ ~active_notes_[2].active

(***************************************************************************)
(* Properties of dispatch and the registry, and the round trip (SpecEcho). *)
(***************************************************************************)
HoldsActive(notes, channel, note) ==
    \E k \in 1..Len(notes) : notes[k] = ActiveNote(channel, note)

\* What a frame decodes to.
DecodesToNoteOn(b) == Len(b) >= 3 /\ HighNibble(b[1]) = 144 /\ b[3] > 0
DecodesToNoteOff(b) ==
    /\ Len(b) >= 3
    /\ \/ HighNibble(b[1]) = 128
       \/ HighNibble(b[1]) = 144 /\ b[3] = 0

\* C16 as claimed: when update() dispatches a frame decoding to NoteOn(c, n,
\* v) the registry then holds (c, n) active; when it dispatches one decoding
\* to NoteOff(c, n, v) the registry then holds no active (c, n); any other
\* frame leaves the registry as it was.
C16_DispatchTracksNotes ==
    [][processed' # processed =>
         LET b == Last(processed').bytes
         IN  /\ DecodesToNoteOn(b) =>
                   HoldsActive(active_notes_', LowNibble(b[1]), b[2])
             /\ DecodesToNoteOff(b) =>
                   ~HoldsActive(active_notes_', LowNibble(b[1]), b[2])
             /\ (~DecodesToNoteOn(b) /\ ~DecodesToNoteOff(b)) =>
                   active_notes_' = active_notes_]_vars

\* C16 as the code has it: dispatching an inbound frame leaves the registry
\* as it was, whatever the frame decodes to.
C16_DispatchLeavesRegistry ==
    [][processed' # processed => active_notes_' = active_notes_]_vars

\* NoteOn(0, 0, 127) came in and was sent back out, which marked it active;
\* then NoteOff(0, 0, 0) came in, reached its listener, and the note is still
\* active in the registry.
C16_Witness ==
    /\ Len(processed) = 2
    /\ processed[1].bytes = <<144, 0, 127>>
    /\ processed[2].bytes = <<128, 0, 0>>
    /\ lastCalls = <<Call("on_note_off_", <<0, 0, 0>>)>>
    /\ lastOp = "sendNoteOn"
    /\ HoldsActive(active_notes_, 0, 0)

\* A well-formed 3-byte NoteOff, NoteOn (velocity > 0) or Control Change.
WellFormedVoice(b) ==
    /\ Len(b) = 3
    /\ HighNibble(b[1]) \in {128, 144, 176}
    /\ b[2] \in 0..127
    /\ b[3] \in 0..127
    /\ HighNibble(b[1]) = 144 => b[3] > 0

MatchingSend(b) ==
    CASE HighNibble(b[1]) = 128 -> "sendNoteOff"
      [] HighNibble(b[1]) = 144 -> "sendNoteOn"
      [] HighNibble(b[1]) = 176 -> "sendCC"

\* C17: for a well-formed frame b, the send operation fed with the arguments
\* of the listener invocation that dispatching b made is the one matching b's
\* status, and on the connected output it writes the one message b.
C17_RoundTrip ==
    [][(tick' # tick /\ WellFormedVoice(lastFrame)) =>
          /\ lastOp' = MatchingSend(lastFrame)
          /\ lastWire' = <<lastFrame>>]_vars

\* NoteOn on channel 15, note 127, velocity 127 went round.
C17_Witness ==
    /\ lastFrame = <<159, 127, 127>>
    /\ lastCalls = <<Call("on_note_on_", <<15, 127, 127>>)>>
    /\ lastOp = "sendNoteOn"
    /\ lastWire = <<lastFrame>>

(***************************************************************************)
(* Unset listeners (SpecDecode).                                           *)
(***************************************************************************)
\* The listener of the event a frame decodes to, or "none" for a frame that
\* decodes to no event.
DecodedListener(b) ==
    CASE b[1] = 248 -> "on_clock_"
      [] b[1] = 250 -> "on_start_"
      [] b[1] = 251 -> "on_continue_"
      [] b[1] = 252 -> "on_stop_"
      [] OTHER ->
         CASE DecodesToNoteOn(b)  -> "on_note_on_"
           [] DecodesToNoteOff(b) -> "on_note_off_"
           [] Len(b) >= 3 /\ HighNibble(b[1]) = 176 -> "on_cc_"
           [] b[1] = 240 -> "on_sysex_"
           [] OTHER -> "none"

\* C18: dispatching a frame whose event has no listener set invokes no
\* listener at all.
C18_UnsetListenerDrops ==
    (Delivered /\ DecodedListener(lastFrame) \notin listeners) => lastCalls = <<>>

(***************************************************************************)
(* Order of registry and backend in the note sends, and allNotesOff()      *)
(* on a connected output (SpecNotes).                                      *)
(***************************************************************************)
ActiveCount(notes, channel, note) ==
    Cardinality({k \in 1..Len(notes) : notes[k] = ActiveNote(channel, note)})

\* markX first, then the backend write, carried out or not.
MarkThenWrite(mark) ==
    {<<Step(mark, TRUE), Step("send_message", ok)>> : ok \in BOOLEAN}

\* C19: sendNoteOn(c, n, v) on a connected output calls markNoteActive before
\* send_message, and (c, n) is active in a registry that has a slot, whether
\* the backend then carries out the write or not; sendNoteOff(c, n, v) calls
\* markNoteInactive before send_message, and one active slot holding (c, n),
\* if there was any, is inactive, whether the write is carried out or not.
C19_RegistryBeforeWrite ==
    [][(tick' # tick /\ OutputConnected) =>
         /\ lastOp' = "sendNoteOn" =>
               LET w == lastWire'[1]
               IN  /\ lastSteps' \in MarkThenWrite("markNoteActive")
                   /\ Len(active_notes_) >= 1 =>
                         HoldsActive(active_notes_', LowNibble(w[1]), w[2])
         /\ lastOp' = "sendNoteOff" =>
               LET w == lastWire'[1]
                   had == ActiveCount(active_notes_, LowNibble(w[1]), w[2])
               IN  /\ lastSteps' \in MarkThenWrite("markNoteInactive")
                   /\ ActiveCount(active_notes_', LowNibble(w[1]), w[2]) =
                         IF had > 0 THEN had - 1 ELSE 0]_vars

\* sendNoteOn(0, 60, v) marked the note active and the backend then failed
\* the write.
C19_Witness ==
    /\ lastOp = "sendNoteOn"
    /\ lastWire = <<NoteOnBytes(0, 60, 100)>>
    /\ lastSteps = <<Step("markNoteActive", TRUE), Step("send_message", FALSE)>>
    /\ HoldsActive(active_notes_, 0, 60)

IsActive(slot) == slot.active

\* One NoteOff with velocity 0 per active slot, in slot order.
ExpectedOffs(notes) ==
    LET act == SelectSeq(notes, IsActive)
    IN  [k \in 1..Len(act) |-> <<128 + act[k].channel, act[k].note, 0>>]

\* C20: allNotesOff() on a connected output writes one NoteOff with velocity
\* 0 for each slot that was active when it was called, in increasing slot
\* order, with that slot's channel and note, and nothing else; on return
\* every slot is inactive.
C20_AllNotesOffInSlotOrder ==
    [][(tick' # tick /\ lastOp' = "allNotesOff" /\ OutputConnected) =>
          /\ lastWire' = ExpectedOffs(active_notes_)
          /\ Len(active_notes_') = Len(active_notes_)
          /\ \A k \in 1..Len(active_notes_') : ~active_notes_'[k].active]_vars

\* Slot 1 held (1, 61) and slot 2 held (0, 60): allNotesOff() wrote the
\* NoteOff of slot 1 and then that of slot 2.
C20_Witness ==
    /\ lastOp = "allNotesOff"
    /\ lastWire = <<<<129, 61, 0>>, <<128, 60, 0>>>>
    /\ Len(active_notes_) = 2
    /\ \A k \in 1..2 : ~active_notes_[k].active
    /\ active_notes_[1].note = 61
    /\ active_notes_[2].note = 60

(***************************************************************************)
(* Properties of pending_mutex_ (SpecQueue).                               *)
(***************************************************************************)
\* The thread that holds pending_mutex_ is inside its lock_guard block, and
\* no other thread is.
HeldInsideLockedBlock ==
    /\ pending_mutex_ \in {"free", "update"} \cup Producers
    /\ pending_mutex_ = "update" <=> upd.pc = "locked"
    /\ \A t \in Producers : pending_mutex_ = t <=> cb[t].pc = "locked"

\* C21: update() holds pending_mutex_ only for the swap and a producer
\* callback only for its length check and append; while update() is in its
\* dispatch loop it does not hold the lock, so a callback that reaches the
\* lock then can take it unless another callback is inside its own locked
\* block; and whoever holds the lock can always take the step that releases
\* it.
C21_LockNotHeldAcrossDispatch ==
    /\ HeldInsideLockedBlock
    /\ upd.pc = "dispatch" => pending_mutex_ # "update"
    /\ \A t \in Producers :
          (/\ upd.pc = "dispatch"
           /\ cb[t].pc = "lock"
           /\ \A u \in Producers : cb[u].pc # "locked") => ENABLED CbAcquire(t)
    /\ pending_mutex_ = "update" => ENABLED UpdSwap
    /\ \A t \in Producers : pending_mutex_ = t => ENABLED CbPush(t)

\* update() has dispatched one frame of its batch and has another to go, and
\* a callback that arrived meanwhile holds the lock for its append.
C21_Witness ==
    /\ upd.pc = "dispatch"
    /\ updProcessed # <<>>
    /\ upd.i <= Len(upd.local)
    /\ \E t \in Producers : cb[t].pc = "locked" /\ pending_mutex_ = t

(***************************************************************************)
(* Size of the registry (SpecNotes).                                       *)
(***************************************************************************)
\* Number of slots marked active.
ActiveSlots(notes) == Cardinality({k \in 1..Len(notes) : notes[k].active})

\* init() has been called.
InitCalled == initRet # "none"

\* C22: at most config_.maxActiveNotes slots are active; once init() has been
\* called the registry has exactly config_.maxActiveNotes slots, whatever is
\* sent afterwards; and with maxActiveNotes = 0 a sendNoteOn on a connected
\* output runs to its send_message with the registry still empty.
C22_RegistryBounded ==
    /\ ActiveSlots(active_notes_) <= config_.maxActiveNotes
    /\ InitCalled => Len(active_notes_) = config_.maxActiveNotes
    /\ ~InitCalled => active_notes_ = <<>>
    /\ (config_.maxActiveNotes = 0 /\ lastOp = "sendNoteOn") =>
          /\ active_notes_ = <<>>
          /\ lastSteps \in {<<>>} \cup MarkThenWrite("markNoteActive")
          /\ lastSteps # <<>> => Len(lastWire) = 1

\* A registry of two slots, both active, has just taken a third sendNoteOn.
C22_Witness ==
    /\ config_.maxActiveNotes = 2
    /\ lastOp = "sendNoteOn"
    /\ trace = "fresh"
    /\ Len(sent) = 3
    /\ ActiveSlots(active_notes_) = 2
    /\ Len(lastWire) = 1

\* With maxActiveNotes = 0, sendNoteOn wrote its frame.
C22_EmptyRegistrySends ==
    /\ config_.maxActiveNotes = 0
    /\ lastOp = "sendNoteOn"
    /\ lastWire = <<NoteOnBytes(0, 60, 100)>>
    /\ active_notes_ = <<>>

(***************************************************************************)
(* Properties of SysEx dispatch (SpecDecode).                              *)
(***************************************************************************)
\* First bytes 0xF1..0xF7, 0xF9 and 0xFD..0xFF: system status bytes that are
\* neither 0xF0 nor a realtime byte processMessage handles.
OtherSystemBytes == (241..247) \cup {249} \cup (253..255)

\* C23: a frame that starts with 0xF0, of any length from 1 and with or
\* without a closing 0xF7, makes one call of the SysEx listener, when it is
\* set, with the whole frame, and no call otherwise; a frame that starts with
\* 0xF1..0xF7, 0xF9 or 0xFD..0xFF makes no call of the SysEx listener.
C23_SysExWholeFrame ==
    /\ (Delivered /\ lastFrame[1] = 240) =>
          lastCalls = IF "on_sysex_" \in listeners
                      THEN <<Call("on_sysex_", <<lastFrame>>)>>
                      ELSE <<>>
    /\ (Delivered /\ lastFrame[1] \in OtherSystemBytes) =>
          "on_sysex_" \notin ListenersCalled

\* A SysEx frame that does not end in 0xF7 reached the listener whole.
C23_Witness ==
    /\ lastFrame = <<240, 247, 0>>
    /\ lastCalls = <<Call("on_sysex_", <<<<240, 247, 0>>>>)>>

(***************************************************************************)
(* Properties of sendPitchBend (SpecBend).                                 *)
(***************************************************************************)
\* [0xE0 | (c & 0x0F), (value + 8192) & 0x7F, ((value + 8192) >> 7) & 0x7F]
\* for value + 8192 in 0..16383.
BendFrame(c, value) ==
    <<224 + (c % 16), (value + 8192) % 128, ((value + 8192) \div 128) % 128>>

\* C24: sendPitchBend(c, value) with value in -8192..8191 on a connected
\* output gives send_message exactly one message, BendFrame(c, value); its
\* status byte is at least 0x80 and its data bytes at most 0x7F; -8192 gives
\* the data bytes 0x00 0x00, 0 gives 0x00 0x40 and 8191 gives 0x7F 0x7F.
C24_PitchBendEncoding ==
    [][(/\ tick' # tick
        /\ lastOp' = "sendPitchBend"
        /\ OutputConnected
        /\ lastArgs'[2] \in -8192..8191) =>
           LET c == lastArgs'[1]
               value == lastArgs'[2]
               w == lastWire'[1]
           IN  /\ lastWire' = <<BendFrame(c, value)>>
               /\ w[1] \in 128..255
               /\ w[2] \in 0..127
               /\ w[3] \in 0..127
               /\ value = -8192 => <<w[2], w[3]>> = <<0, 0>>
               /\ value = 0 => <<w[2], w[3]>> = <<0, 64>>
               /\ value = 8191 => <<w[2], w[3]>> = <<127, 127>>]_vars

\* sendPitchBend(9, 0) wrote E9 00 40.
C24_Witness ==
    /\ lastOp = "sendPitchBend"
    /\ lastArgs = <<9, 0>>
    /\ lastWire = <<<<233, 0, 64>>>>

(***************************************************************************)
(* allNotesOff() while the output is not connected (SpecNotes).            *)
(***************************************************************************)
AllInactive(notes) == \A k \in 1..Len(notes) : ~notes[k].active

\* C25: allNotesOff() called while the output is absent or reported
\* disconnected gives nothing to send_message and still leaves every slot
\* inactive, whatever was active; and an allNotesOff() that follows an
\* allNotesOff(), the output connected again or not, writes nothing.
C25_DisconnectedFlushForgets ==
    [][(tick' # tick /\ lastOp' = "allNotesOff") =>
          /\ ~OutputConnected =>
                /\ lastWire' = <<>>
                /\ Len(active_notes_') = Len(active_notes_)
                /\ AllInactive(active_notes_')
          /\ (lastOp = "allNotesOff" /\ OutputConnected) =>
                /\ lastWire' = <<>>
                /\ AllInactive(active_notes_')]_vars

\* sendNoteOn(0, 60) wrote its NoteOn, the output was lost, and allNotesOff()
\* wrote nothing: slot 1 still holds (0, 60) and is inactive.
C25_Witness ==
    /\ prevOp = "sendNoteOn"
    /\ prevWire = <<NoteOnBytes(0, 60, 100)>>
    /\ lastOp = "allNotesOff"
    /\ lastWire = <<>>
    /\ ~out_connected
    /\ Len(active_notes_) >= 1
    /\ active_notes_[1] = [channel |-> 0, note |-> 60, active |-> FALSE]

\* ... and with the output connected again a second allNotesOff() wrote no
\* NoteOff for it.
C25_ForgottenAfterReconnect ==
    /\ prevOp = "allNotesOff"
    /\ prevWire = <<>>
    /\ lastOp = "allNotesOff"
    /\ lastWire = <<>>
    /\ OutputConnected
    /\ trace = "mixed"
    /\ Len(active_notes_) >= 1
    /\ active_notes_[1] = [channel |-> 0, note |-> 60, active |-> FALSE]

(***************************************************************************)
(* The registry holds a pair as often as it was sent (SpecNotes).          *)
(***************************************************************************)
NotePairs == Channels \X Notes

AllActive(notes) == \A k \in 1..Len(notes) : notes[k].active

\* Slot k is active and holds (channel, note).
ActiveMatch(notes, k, channel, note) == notes[k] = ActiveNote(channel, note)

\* C26: on a connected output, a sendNoteOn(c, n) that finds a free slot adds
\* one active slot holding (c, n) and takes none away, so k such calls on
\* free slots occupy k slots; sendNoteOff(c, n) clears the active slot of
\* lowest index that holds (c, n) and no other slot; and allNotesOff() writes
\* as many NoteOff(c, n, 0) as there are active slots holding (c, n).
C26_RegistryIsMultiset ==
    [][(tick' # tick /\ OutputConnected) =>
         /\ (lastOp' = "sendNoteOn" /\ ~AllActive(active_notes_)) =>
               LET w == lastWire'[1]
               IN  \A p \in NotePairs :
                      ActiveCount(active_notes_', p[1], p[2]) =
                         ActiveCount(active_notes_, p[1], p[2]) +
                            (IF p = <<LowNibble(w[1]), w[2]>> THEN 1 ELSE 0)
         /\ lastOp' = "sendNoteOff" =>
               LET w == lastWire'[1]
                   c == LowNibble(w[1])
                   n == w[2]
                   hits == {k \in 1..Len(active_notes_) :
                               ActiveMatch(active_notes_, k, c, n)}
               IN  IF hits = {} THEN active_notes_' = active_notes_
                   ELSE \E k \in hits :
                           /\ \A j \in hits : k <= j
                           /\ active_notes_' = [active_notes_ EXCEPT ![k].active = FALSE]
         /\ lastOp' = "allNotesOff" =>
               \A p \in NotePairs :
                  Count(lastWire', NoteOffFor(p)) =
                     ActiveCount(active_notes_, p[1], p[2])]_vars

\* Both slots held (0, 60) active; sendNoteOff(0, 60) cleared slot 1 and left
\* slot 2 active.
C26_Witness ==
    /\ prevOp = "sendNoteOn"
    /\ prevWire = <<NoteOnBytes(0, 60, 100)>>
    /\ lastOp = "sendNoteOff"
    /\ lastWire = <<NoteOffBytes(0, 60, 100)>>
    /\ active_notes_ = <<[channel |-> 0, note |-> 60, active |-> FALSE],
                         ActiveNote(0, 60)>>

\* ... and allNotesOff() then wrote the one NoteOff of slot 2.
C26_OneOffForTheRest ==
    /\ prevOp = "sendNoteOff"
    /\ prevWire = <<NoteOffBytes(0, 60, 100)>>
    /\ lastOp = "allNotesOff"
    /\ lastWire = <<NoteOffFor(<<0, 60>>)>>
    /\ active_notes_ = <<[channel |-> 0, note |-> 60, active |-> FALSE],
                         [channel |-> 0, note |-> 60, active |-> FALSE]>>

(***************************************************************************)
(* Termination of update() and delivery of every queued frame (SpecPump).  *)
(***************************************************************************)
\* The steps update() still has to take before it returns: the lock, the
\* swap, one processMessage per frame left in local, and the return.
StepsLeft ==
    CASE upd.pc = "lock"     -> max_pending_messages_ + 3
      [] upd.pc = "locked"   -> max_pending_messages_ + 2
      [] upd.pc = "dispatch" -> (Len(upd.local) - upd.i + 1) + 1
      [] OTHER               -> 0

\* update() works on the batch of its one swap.
OneBatch ==
    /\ Len(upd.local) <= max_pending_messages_
    /\ upd.pc = "dispatch" =>
          /\ upd.i \in 1..(Len(upd.local) + 1)
          /\ updProcessed = Take(upd.local, upd.i - 1)
    /\ upd.pc # "dispatch" => upd.local = <<>>

\* C27: an update() call dispatches the frames its swap took, at most
\* max_pending_messages_ of them, and every step that changes its position
\* either starts a call or brings its return nearer, whatever the callbacks
\* push meanwhile; local is not touched during dispatch; so an update() call
\* under way returns, and with update() called again and again every frame
\* pushed onto the queue is handed to processMessage.
C27_UpdateTerminatesAndDrains ==
    /\ []OneBatch
    /\ [][upd' # upd =>
            \/ upd.pc = "idle" /\ upd'.pc = "lock"
            \/ StepsLeft' < StepsLeft]_vars
    /\ [][(upd.pc = "dispatch" /\ upd'.pc = "dispatch") => upd'.local = upd.local]_vars
    /\ (upd.pc # "idle") ~> (upd.pc = "idle")
    /\ \A k \in 1..MaxOffered : (Len(accepted) >= k) ~> (Len(processed) >= k)

\* update() has dispatched a full batch; a frame pushed while it ran waits
\* in the queue for the next call.
C27_Witness ==
    /\ upd.pc = "dispatch"
    /\ Len(upd.local) = max_pending_messages_
    /\ upd.i = Len(upd.local) + 1
    /\ updProcessed = upd.local
    /\ pending_messages_ # <<>>
    /\ pending_messages_[1].timestampUs > upd.local[1].timestampUs

====
